---- MODULE Spec2Model ----
(***************************************************************************)
(* A model of the unzip plugin (src/src/ufop/unzip/unzip.go): the          *)
(* configuration of an Unzipper, one call of Unzipper.Do by the task       *)
(* runner, and the upload goroutines that call starts (Spec); and of one   *)
(* call of the Do of the html2pdf and html2image plugins (SpecHtml).       *)
(*                                                                         *)
(* Strings that the code concatenates (entry names, prefix, bucket, scope) *)
(* are sequences of byte values, so that utf8.Valid and the GBK            *)
(* transcoding act on bytes as they do in the code.                        *)
(***************************************************************************)
EXTENDS Integers, Sequences, FiniteSets, Bags, TLC

VARIABLES
    this,           \* the Unzipper's fields after InitConfig
    req,            \* the ufop.UfopRequest handed to Do
    pc,             \* where Do's own control flow stands
    par,            \* bucket, prefix, overwrite as parse returned them
    fetched,        \* number of http.Get calls issued
    zipFiles,       \* zipReader.File
    idx,            \* position of the range loop over zipFiles (1-based)
    opened,         \* number of zipFile.Open calls issued
    policy,         \* rs.PutPolicy (its Scope)
    loc,            \* the loop body's locals of the current iteration
    uploadCounter,
    uploadWg,       \* the WaitGroup's counter
    resultLock,     \* 0: free, else the number of the task that holds it
    unzipResult,    \* unzipResult.Files
    tasks,          \* the goroutines started so far, in launch order
    result,         \* Do's named return value result
    err,            \* Do's named return value err
    html            \* a call of Html2Pdfer.Do or Html2Imager.Do (a record)

vars == <<this, req, pc, par, fetched, zipFiles, idx, opened, policy, loc,
          uploadCounter, uploadWg, resultLock, unzipResult, tasks, result, err,
          html>>

-----------------------------------------------------------------------------
(* Bounds of the model. *)

\* Longest archive (number of central-directory records) the fetch returns.
MaxEntries == 3

\* The batch size the model runs with. The source sets MAX_UPLOAD_WORKERS to
\* 100; the barrier arithmetic (uploadCounter % MAX_UPLOAD_WORKERS) is the
\* same for any positive value, and a small one lets the barrier be reached.
BatchSize == 2

-----------------------------------------------------------------------------
(* Program constants. *)

MiB == 1024 * 1024

UNZIP_MAX_ZIP_FILE_LENGTH == 1 * 1024 * 1024 * 1024
UNZIP_MAX_FILE_LENGTH == 100 * 1024 * 1024
UNZIP_MAX_FILE_COUNT == 10
MAX_UPLOAD_WORKERS == BatchSize

rputThreshold == 100 * 1024 * 1024

RESULT_TYPE_JSON == "json"
CONTENT_TYPE_JSON == "application/json"

\* The zero value of Do's named results: a nil result, a nil error.
NoResult == [isNil |-> TRUE, Files |-> <<>>, resultType |-> "", contentType |-> ""]
NoErr == ""

-----------------------------------------------------------------------------
(* Bytes and names. *)

\* ":" of line 261
Colon == 58

NameA == <<97>>             \* "a"
NameDir == <<98, 47>>       \* "b/"
NameBC == <<98, 47, 99>>    \* "b/c"
NameGbk == <<214, 208>>     \* GBK bytes of U+4E2D, not valid UTF-8
NameBad == <<255>>          \* neither UTF-8 nor GBK
NameBadDir == <<255, 47>>   \* a directory whose name is neither

BucketB == <<66>>           \* "B"
PrefixO == <<111, 47>>      \* "o/"

IsCont(b) == b >= 128 /\ b <= 191

\* utf8.Valid: the length of the well-formed UTF-8 sequence at the head of s,
\* 0 when there is none.
Utf8Head(s) ==
    LET b == s[1]
        n == Len(s)
    IN  IF b < 128 THEN 1
        ELSE IF b >= 194 /\ b <= 223
            THEN IF n >= 2 /\ IsCont(s[2]) THEN 2 ELSE 0
        ELSE IF b >= 224 /\ b <= 239
            THEN IF n >= 3 /\ IsCont(s[2]) /\ IsCont(s[3])
                    /\ (b = 224 => s[2] >= 160)
                    /\ (b = 237 => s[2] <= 159)
                 THEN 3 ELSE 0
        ELSE IF b >= 240 /\ b <= 244
            THEN IF n >= 4 /\ IsCont(s[2]) /\ IsCont(s[3]) /\ IsCont(s[4])
                    /\ (b = 240 => s[2] >= 144)
                    /\ (b = 244 => s[2] <= 143)
                 THEN 4 ELSE 0
        ELSE 0

RECURSIVE Utf8Valid(_)
Utf8Valid(s) ==
    IF s = <<>> THEN TRUE
    ELSE LET k == Utf8Head(s)
         IN  IF k = 0 THEN FALSE
             ELSE Utf8Valid(SubSeq(s, k + 1, Len(s)))

\* The UTF-8 bytes of the character a GBK byte pair stands for; <<>> for a
\* pair that stands for none. Two rows of the code page are enough here.
GbkChar(lead, trail) ==
    IF lead = 214 /\ trail = 208 THEN <<228, 184, 173>>        \* U+4E2D
    ELSE IF lead = 206 /\ trail = 196 THEN <<230, 150, 135>>   \* U+6587
    ELSE <<>>

\* utils.Gbk2Utf8: [ok, val]. A byte below 128 stands for itself, a lead byte
\* takes the next byte as its trail, anything else is an error.
RECURSIVE Gbk2Utf8(_)
Gbk2Utf8(s) ==
    IF s = <<>> THEN [ok |-> TRUE, val |-> <<>>]
    ELSE IF s[1] < 128
        THEN LET r == Gbk2Utf8(Tail(s))
             IN  [ok |-> r.ok, val |-> IF r.ok THEN <<s[1]>> \o r.val ELSE <<>>]
    ELSE IF Len(s) >= 2 /\ GbkChar(s[1], s[2]) # <<>>
        THEN LET r == Gbk2Utf8(SubSeq(s, 3, Len(s)))
             IN  [ok |-> r.ok,
                  val |-> IF r.ok THEN GbkChar(s[1], s[2]) \o r.val ELSE <<>>]
    ELSE [ok |-> FALSE, val |-> <<>>]

-----------------------------------------------------------------------------
(* Inputs. *)

\* UnzipperConfig as decoded from the job configuration file (0: option absent).
Configs ==
    { [UnzipMaxFileCount |-> c, UnzipMaxFileLength |-> l, UnzipMaxZipFileLength |-> 0] :
        c \in {0, 2}, l \in {0, 200 * MiB} }

\* Unzipper.InitConfig: the limits an Unzipper runs with.
InitConfig(config) ==
    [maxFileCount |-> IF config.UnzipMaxFileCount <= 0
                      THEN UNZIP_MAX_FILE_COUNT ELSE config.UnzipMaxFileCount,
     maxFileLength |-> IF config.UnzipMaxFileLength <= 0
                       THEN UNZIP_MAX_FILE_LENGTH ELSE config.UnzipMaxFileLength,
     maxZipFileLength |-> IF config.UnzipMaxZipFileLength <= 0
                          THEN UNZIP_MAX_ZIP_FILE_LENGTH
                          ELSE config.UnzipMaxZipFileLength]

\* An operation descriptor, by what parse reads of it: whether it matches the
\* pattern, whether its bucket and prefix tokens decode and to what, and the
\* overwrite digit ("" when the segment is absent).
CmdPlain == [matched |-> TRUE, bucketOk |-> TRUE, bucket |-> BucketB,
             prefixOk |-> TRUE, prefix |-> <<>>, overwriteStr |-> ""]
CmdOver == [matched |-> TRUE, bucketOk |-> TRUE, bucket |-> BucketB,
            prefixOk |-> TRUE, prefix |-> PrefixO, overwriteStr |-> "1"]
CmdNoMatch == [CmdPlain EXCEPT !.matched = FALSE]
CmdBadBucket == [CmdPlain EXCEPT !.bucketOk = FALSE]
CmdBadPrefix == [CmdOver EXCEPT !.prefixOk = FALSE]

Cmds == {CmdPlain, CmdOver, CmdNoMatch, CmdBadBucket, CmdBadPrefix}

\* Unzipper.parse
parse(cmd) ==
    IF ~cmd.matched
    THEN [err |-> "invalid unzip command format",
          bucket |-> <<>>, prefix |-> <<>>, overwrite |-> FALSE]
    ELSE IF ~cmd.bucketOk
    THEN [err |-> "invalid unzip parameter 'bucket'",
          bucket |-> <<>>, prefix |-> <<>>, overwrite |-> FALSE]
    ELSE IF ~cmd.prefixOk
    THEN [err |-> "invalid unzip parameter 'prefix'",
          bucket |-> cmd.bucket, prefix |-> <<>>, overwrite |-> FALSE]
    ELSE [err |-> NoErr, bucket |-> cmd.bucket, prefix |-> cmd.prefix,
          overwrite |-> (cmd.overwriteStr = "1")]

\* The requests the task runner hands to Do: every descriptor with a ZIP source
\* of a small size, and the plain descriptor with the other mime types and with
\* sizes at and above the default archive limit.
Requests ==
    { [Cmd |-> c, MimeType |-> "application/zip", Fsize |-> 1] : c \in Cmds }
    \cup { [Cmd |-> CmdPlain, MimeType |-> "application/x-zip-compressed",
             Fsize |-> f] :
             f \in {UNZIP_MAX_ZIP_FILE_LENGTH, UNZIP_MAX_ZIP_FILE_LENGTH + 1} }
    \cup { [Cmd |-> CmdPlain, MimeType |-> "text/html", Fsize |-> 1] }

\* The records an archive's central directory is drawn from.
ZipEntries ==
    { [Name |-> NameA, UncompressedSize64 |-> 0, IsDir |-> FALSE],
      [Name |-> NameGbk, UncompressedSize64 |-> rputThreshold, IsDir |-> FALSE],
      [Name |-> NameBC, UncompressedSize64 |-> rputThreshold + 1, IsDir |-> FALSE],
      [Name |-> NameDir, UncompressedSize64 |-> 0, IsDir |-> TRUE],
      [Name |-> NameBad, UncompressedSize64 |-> 0, IsDir |-> FALSE],
      [Name |-> NameBadDir, UncompressedSize64 |-> 0, IsDir |-> TRUE] }

Archives == UNION { [1..n -> ZipEntries] : n \in 0..MaxEntries }

-----------------------------------------------------------------------------
(* State after construction: a configured Unzipper and a request. *)

NoLoc == [fileName |-> <<>>, fileSize |-> 0, uptoken |-> <<>>, Key |-> <<>>]

\* No call of an HTML plugin is under way.
HtmlIdle == [pc |-> "idle"]

Init ==
    /\ this \in { InitConfig(c) : c \in Configs }
    /\ req \in Requests
    /\ pc = "parse"
    /\ par = [bucket |-> <<>>, prefix |-> <<>>, overwrite |-> FALSE]
    /\ fetched = 0
    /\ zipFiles = <<>>
    /\ idx = 0
    /\ opened = 0
    /\ policy = [Scope |-> <<>>]
    /\ loc = NoLoc
    /\ uploadCounter = 0
    /\ uploadWg = 0
    /\ resultLock = 0
    /\ unzipResult = <<>>
    /\ tasks = <<>>
    /\ result = NoResult
    /\ err = NoErr
    /\ html = HtmlIdle

-----------------------------------------------------------------------------
(* Do, the dispatching control flow. *)

ReturnPartial(e) ==
    /\ pc' = "done"
    /\ err' = e
    /\ result' = [isNil |-> FALSE, Files |-> unzipResult,
                  resultType |-> RESULT_TYPE_JSON, contentType |-> CONTENT_TYPE_JSON]

\* A return statement of Do that leaves err set: result keeps its zero value.
Return(e) ==
    /\ pc' = "done"
    /\ err' = e
    /\ UNCHANGED result

\* Lines 143-147: parse the descriptor.
Parse ==
    /\ pc = "parse"
    /\ LET p == parse(req.Cmd)
       IN  IF p.err # NoErr
           THEN /\ Return(p.err)
                /\ UNCHANGED par
           ELSE /\ par' = [bucket |-> p.bucket, prefix |-> p.prefix,
                           overwrite |-> p.overwrite]
                /\ pc' = "checkSrc"
                /\ UNCHANGED <<err, result>>
    /\ UNCHANGED <<html, this, req, fetched, zipFiles, idx, opened, policy, loc,
                   uploadCounter, uploadWg, resultLock, unzipResult, tasks>>

CheckSourceNoLength ==
    /\ pc = "checkSrc"
    /\ IF ~(req.MimeType = "application/zip"
            \/ req.MimeType = "application/x-zip-compressed")
       THEN Return("unsupported mimetype to unzip")
       ELSE /\ pc' = "fetch"
            /\ UNCHANGED <<err, result>>
    /\ UNCHANGED <<html, this, req, par, fetched, zipFiles, idx, opened, policy, loc,
                   uploadCounter, uploadWg, resultLock, unzipResult, tasks>>

\* Lines 150-158: the source's mime type and length.
CheckSource ==
    /\ pc = "checkSrc"
    /\ IF ~(req.MimeType = "application/zip"
            \/ req.MimeType = "application/x-zip-compressed")
       THEN Return("unsupported mimetype to unzip")
       ELSE IF req.Fsize > this.maxZipFileLength
       THEN Return("src zip file length exceeds the limit")
       ELSE /\ pc' = "fetch"
            /\ UNCHANGED <<err, result>>
    /\ UNCHANGED <<html, this, req, par, fetched, zipFiles, idx, opened, policy, loc,
                   uploadCounter, uploadWg, resultLock, unzipResult, tasks>>

\* Lines 160-181: http.Get and ioutil.ReadAll of the body.
Fetch ==
    /\ pc = "fetch"
    /\ fetched' = fetched + 1
    /\ \E outcome \in {"ok", "respErr", "status", "readErr"} :
         IF outcome = "ok"
         THEN /\ pc' = "readZip"
              /\ UNCHANGED <<err, result>>
         ELSE IF outcome = "readErr"
         THEN Return("read resource data failed")
         ELSE Return("retrieve resource data failed")
    /\ UNCHANGED <<html, this, req, par, zipFiles, idx, opened, policy, loc,
                   uploadCounter, uploadWg, resultLock, unzipResult, tasks>>

\* Lines 185-191: zip.NewReader over the fetched bytes.
ReadZip ==
    /\ pc = "readZip"
    /\ \/ /\ Return("invalid zip file")
          /\ UNCHANGED zipFiles
       \/ /\ \E a \in Archives : zipFiles' = a
          /\ pc' = "checkCount"
          /\ UNCHANGED <<err, result>>
    /\ UNCHANGED <<html, this, req, par, fetched, idx, opened, policy, loc,
                   uploadCounter, uploadWg, resultLock, unzipResult, tasks>>

CountExceedsOrEqual(zipFileCount, maxFileCount) == zipFileCount >= maxFileCount

\* Line 194
CountExceeds(zipFileCount, maxFileCount) == zipFileCount > maxFileCount

\* Lines 192-197: the entry count.
CheckFileCount ==
    /\ pc = "checkCount"
    /\ IF CountExceeds(Len(zipFiles), this.maxFileCount)
       THEN Return("zip files count exceeds the limit")
       ELSE /\ pc' = "checkSize"
            /\ UNCHANGED <<err, result>>
    /\ UNCHANGED <<html, this, req, par, fetched, zipFiles, idx, opened, policy, loc,
                   uploadCounter, uploadWg, resultLock, unzipResult, tasks>>

SizeExceedsByTwo(fileSize, maxFileLength) == fileSize > maxFileLength + 1

\* Line 202
SizeExceeds(fileSize, maxFileLength) == fileSize > maxFileLength

AnySizeExceedsFirst(files, maxFileLength) ==
    Len(files) > 0 /\ SizeExceeds(files[1].UncompressedSize64, maxFileLength)

\* Lines 199-206: the loop over all entries' declared sizes.
AnySizeExceeds(files, maxFileLength) ==
    \E i \in 1..Len(files) : SizeExceeds(files[i].UncompressedSize64, maxFileLength)

\* Lines 198-206: the size pre-scan.
CheckFileSize ==
    /\ pc = "checkSize"
    /\ IF AnySizeExceeds(zipFiles, this.maxFileLength)
       THEN Return("zip file length exceeds the limit")
       ELSE /\ pc' = "setup"
            /\ UNCHANGED <<err, result>>
    /\ UNCHANGED <<html, this, req, par, fetched, zipFiles, idx, opened, policy, loc,
                   uploadCounter, uploadWg, resultLock, unzipResult, tasks>>

\* Lines 208-226: the policy, the empty result, the WaitGroup, the counter.
Setup ==
    /\ pc = "setup"
    /\ policy' = [Scope |-> par.bucket]
    /\ unzipResult' = <<>>
    /\ uploadWg' = 0
    /\ resultLock' = 0
    /\ uploadCounter' = 0
    /\ idx' = 1
    /\ pc' = "iter"
    /\ UNCHANGED <<html, this, req, par, fetched, zipFiles, opened, loc, tasks,
                   result, err>>

\* Lines 232-238: the name an entry is known by afterwards.
DecodeName(fileName) ==
    IF ~Utf8Valid(fileName)
    THEN Gbk2Utf8(fileName)
    ELSE [ok |-> TRUE, val |-> fileName]

NextEntryDirFirst ==
    /\ pc = "iter"
    /\ idx <= Len(zipFiles)
    /\ LET zipFile == zipFiles[idx]
           d == IF zipFile.IsDir THEN [ok |-> TRUE, val |-> zipFile.Name]
                ELSE DecodeName(zipFile.Name)
       IN  IF ~d.ok
           THEN /\ Return("unsupported file name encoding")
                /\ UNCHANGED loc
           ELSE /\ loc' = [NoLoc EXCEPT !.fileName = d.val,
                                        !.fileSize = zipFile.UncompressedSize64]
                /\ pc' = "dirCheck"
                /\ UNCHANGED <<err, result>>
    /\ UNCHANGED <<html, this, req, par, fetched, zipFiles, idx, opened, policy,
                   uploadCounter, uploadWg, resultLock, unzipResult, tasks>>

\* Lines 227-238: the next entry of the range loop, its name decoded.
NextEntry ==
    /\ pc = "iter"
    /\ idx <= Len(zipFiles)
    /\ LET zipFile == zipFiles[idx]
           d == DecodeName(zipFile.Name)
       IN  IF ~d.ok
           THEN /\ Return("unsupported file name encoding")
                /\ UNCHANGED loc
           ELSE /\ loc' = [NoLoc EXCEPT !.fileName = d.val,
                                        !.fileSize = zipFile.UncompressedSize64]
                /\ pc' = "dirCheck"
                /\ UNCHANGED <<err, result>>
    /\ UNCHANGED <<html, this, req, par, fetched, zipFiles, idx, opened, policy,
                   uploadCounter, uploadWg, resultLock, unzipResult, tasks>>

DirCheckNoSkip ==
    /\ pc = "dirCheck"
    /\ pc' = "extract"
    /\ UNCHANGED <<html, this, req, par, fetched, zipFiles, idx, opened, policy, loc,
                   uploadCounter, uploadWg, resultLock, unzipResult, tasks,
                   result, err>>

\* Lines 240-242: a directory entry ends the iteration.
DirCheck ==
    /\ pc = "dirCheck"
    /\ IF zipFiles[idx].IsDir
       THEN /\ idx' = idx + 1
            /\ loc' = NoLoc
            /\ pc' = "iter"
       ELSE /\ pc' = "extract"
            /\ UNCHANGED <<idx, loc>>
    /\ UNCHANGED <<html, this, req, par, fetched, zipFiles, opened, policy,
                   uploadCounter, uploadWg, resultLock, unzipResult, tasks,
                   result, err>>

ExtractAndContinue ==
    /\ pc = "extract"
    /\ opened' = opened + 1
    /\ \E outcome \in {"ok", "zipErr", "unzipErr"} :
         /\ pc' = "prepare"
         /\ err' = IF outcome = "ok" THEN err
                   ELSE IF outcome = "zipErr" THEN "open zip file content failed"
                   ELSE "unzip the file content failed"
         /\ UNCHANGED result
    /\ UNCHANGED <<html, this, req, par, fetched, zipFiles, idx, policy, loc,
                   uploadCounter, uploadWg, resultLock, unzipResult, tasks>>

\* Lines 244-256: zipFile.Open and ioutil.ReadAll of the entry.
Extract ==
    /\ pc = "extract"
    /\ opened' = opened + 1
    /\ \E outcome \in {"ok", "zipErr", "unzipErr"} :
         IF outcome = "ok"
         THEN /\ pc' = "prepare"
              /\ UNCHANGED <<err, result>>
         ELSE IF outcome = "zipErr"
         THEN Return("open zip file content failed")
         ELSE Return("unzip the file content failed")
    /\ UNCHANGED <<html, this, req, par, fetched, zipFiles, idx, policy, loc,
                   uploadCounter, uploadWg, resultLock, unzipResult, tasks>>

\* Line 259
TargetKey(prefix, fileName) == prefix \o fileName

ScopeForAccumulating(scope, overwrite, bucket, key) ==
    IF overwrite THEN scope \o <<Colon>> \o key ELSE scope

\* Lines 260-262: the scope of the policy the token is made from.
ScopeFor(scope, overwrite, bucket, key) ==
    IF overwrite THEN bucket \o <<Colon>> \o key ELSE scope

\* Line 263: policy.Token. The token carries the policy's scope, signed.
Token(p) == [scope |-> p.Scope]

AtBarrierNever(counter) == counter % MAX_UPLOAD_WORKERS = MAX_UPLOAD_WORKERS

AtBarrierOffByOne(counter) == (counter + 1) % MAX_UPLOAD_WORKERS = 0

\* Line 270
AtBarrier(counter) == counter % MAX_UPLOAD_WORKERS = 0

\* Lines 258-270: the key, the token, the counter.
Prepare ==
    /\ pc = "prepare"
    /\ LET key == TargetKey(par.prefix, loc.fileName)
           pol == [Scope |-> ScopeFor(policy.Scope, par.overwrite, par.bucket, key)]
       IN  /\ policy' = pol
           /\ loc' = [loc EXCEPT !.fileName = key, !.uptoken = Token(pol),
                                 !.Key = key]
    /\ uploadCounter' = uploadCounter + 1
    /\ pc' = IF AtBarrier(uploadCounter') THEN "barrier" ELSE "launch"
    /\ UNCHANGED <<html, this, req, par, fetched, zipFiles, idx, opened, uploadWg,
                   resultLock, unzipResult, tasks, result, err>>

BarrierNoWait ==
    /\ pc = "barrier"
    /\ pc' = "launch"
    /\ UNCHANGED <<html, this, req, par, fetched, zipFiles, idx, opened, policy, loc,
                   uploadCounter, uploadWg, resultLock, unzipResult, tasks,
                   result, err>>

\* Line 271: uploadWg.Wait() returns once the counter is zero.
Barrier ==
    /\ pc = "barrier"
    /\ uploadWg = 0
    /\ pc' = "launch"
    /\ UNCHANGED <<html, this, req, par, fetched, zipFiles, idx, opened, policy, loc,
                   uploadCounter, uploadWg, resultLock, unzipResult, tasks,
                   result, err>>

\* The goroutine of lines 276-301 as it starts, with the variables it closes
\* over. fio and rio count its calls of fio.Put and rio.Put, ans records what
\* the store answered, entry the position of the entry it uploads.
NewTask(l, entry) ==
    [pc |-> "put", fileName |-> l.fileName, fileSize |-> l.fileSize,
     uptoken |-> l.uptoken,
     unzipFile |-> [Key |-> l.Key, Hash |-> "", Error |-> ""],
     fio |-> 0, rio |-> 0, ans |-> "none", entry |-> entry]

\* Lines 274-276: uploadWg.Add(1) and the go statement; the iteration ends.
Launch ==
    /\ pc = "launch"
    /\ uploadWg' = uploadWg + 1
    /\ tasks' = Append(tasks, NewTask(loc, idx))
    /\ idx' = idx + 1
    /\ loc' = NoLoc
    /\ pc' = "iter"
    /\ UNCHANGED <<html, this, req, par, fetched, zipFiles, opened, policy,
                   uploadCounter, resultLock, unzipResult, result, err>>

JoinNoWait ==
    /\ pc = "iter"
    /\ idx > Len(zipFiles)
    /\ result' = [isNil |-> FALSE, Files |-> unzipResult,
                  resultType |-> RESULT_TYPE_JSON, contentType |-> CONTENT_TYPE_JSON]
    /\ pc' = "done"
    /\ UNCHANGED <<html, this, req, par, fetched, zipFiles, idx, opened, policy, loc,
                   uploadCounter, uploadWg, resultLock, unzipResult, tasks, err>>

\* Lines 304-311: the final uploadWg.Wait() and the success return.
Join ==
    /\ pc = "iter"
    /\ idx > Len(zipFiles)
    /\ uploadWg = 0
    /\ result' = [isNil |-> FALSE, Files |-> unzipResult,
                  resultType |-> RESULT_TYPE_JSON, contentType |-> CONTENT_TYPE_JSON]
    /\ pc' = "done"
    /\ UNCHANGED <<html, this, req, par, fetched, zipFiles, idx, opened, policy, loc,
                   uploadCounter, uploadWg, resultLock, unzipResult, tasks, err>>

-----------------------------------------------------------------------------
(* The upload goroutines. *)

UseDirectPutBelow(fileSize) == fileSize < rputThreshold

\* Line 279: which put a task calls.
UseDirectPut(fileSize) == fileSize <= rputThreshold

\* What the store answers to a put: an error, or none and a hash.
PutAnswers == { [err |-> "", hash |-> "Fh"], [err |-> "timeout", hash |-> ""] }

OutcomeHashOnly(f, ans) == [f EXCEPT !.Hash = ans.hash]

\* Lines 282-286 and 291-295: the outcome a put's answer leaves in unzipFile.
Outcome(f, ans) ==
    IF ans.err # ""
    THEN [f EXCEPT !.Error = "save unzip file to bucket error, " \o ans.err]
    ELSE [f EXCEPT !.Hash = ans.hash]

PutAborting(t) ==
    /\ tasks[t].pc = "put"
    /\ \E ans \in PutAnswers :
         /\ tasks' = [tasks EXCEPT
                        ![t].fio = IF UseDirectPut(tasks[t].fileSize) THEN @ + 1 ELSE @,
                        ![t].rio = IF UseDirectPut(tasks[t].fileSize) THEN @ ELSE @ + 1,
                        ![t].unzipFile = Outcome(@, ans),
                        ![t].ans = IF ans.err # "" THEN "failed" ELSE "ok",
                        ![t].pc = "lock"]
         /\ IF ans.err # "" /\ pc # "done"
            THEN pc' = "done" /\ err' = "save unzip file to bucket error"
            ELSE UNCHANGED <<pc, err>>
    /\ UNCHANGED <<html, this, req, par, fetched, zipFiles, idx, opened, policy, loc,
                   uploadCounter, uploadWg, resultLock, unzipResult, result>>

\* Lines 279-296: fio.Put or rio.Put, and its answer.
Put(t) ==
    /\ tasks[t].pc = "put"
    /\ \E ans \in PutAnswers :
         tasks' = [tasks EXCEPT
                     ![t].fio = IF UseDirectPut(tasks[t].fileSize) THEN @ + 1 ELSE @,
                     ![t].rio = IF UseDirectPut(tasks[t].fileSize) THEN @ ELSE @ + 1,
                     ![t].unzipFile = Outcome(@, ans),
                     ![t].ans = IF ans.err # "" THEN "failed" ELSE "ok",
                     ![t].pc = "lock"]
    /\ UNCHANGED <<html, this, req, pc, par, fetched, zipFiles, idx, opened, policy, loc,
                   uploadCounter, uploadWg, resultLock, unzipResult, result, err>>

LockNoGuard(t) ==
    /\ tasks[t].pc = "lock"
    /\ resultLock' = t
    /\ tasks' = [tasks EXCEPT ![t].pc = "append"]
    /\ UNCHANGED <<html, this, req, pc, par, fetched, zipFiles, idx, opened, policy, loc,
                   uploadCounter, uploadWg, unzipResult, result, err>>

\* Line 298: resultLock.Lock()
Lock(t) ==
    /\ tasks[t].pc = "lock"
    /\ resultLock = 0
    /\ resultLock' = t
    /\ tasks' = [tasks EXCEPT ![t].pc = "append"]
    /\ UNCHANGED <<html, this, req, pc, par, fetched, zipFiles, idx, opened, policy, loc,
                   uploadCounter, uploadWg, unzipResult, result, err>>

AppendedDedup(files, f) ==
    IF \E i \in 1..Len(files) : files[i].Key = f.Key THEN files ELSE Append(files, f)

\* Line 299: the append itself.
Appended(files, f) == Append(files, f)

AppendResultSharedKey(t) ==
    /\ tasks[t].pc = "append"
    /\ unzipResult' = Appended(unzipResult,
                         [tasks[t].unzipFile EXCEPT
                            !.Key = IF loc.Key # <<>> THEN loc.Key ELSE @])
    /\ tasks' = [tasks EXCEPT ![t].pc = "unlock"]
    /\ UNCHANGED <<html, this, req, pc, par, fetched, zipFiles, idx, opened, policy, loc,
                   uploadCounter, uploadWg, resultLock, result, err>>

\* Line 299
AppendResult(t) ==
    /\ tasks[t].pc = "append"
    /\ unzipResult' = Appended(unzipResult, tasks[t].unzipFile)
    /\ tasks' = [tasks EXCEPT ![t].pc = "unlock"]
    /\ UNCHANGED <<html, this, req, pc, par, fetched, zipFiles, idx, opened, policy, loc,
                   uploadCounter, uploadWg, resultLock, result, err>>

\* Line 300: resultLock.Unlock()
Unlock(t) ==
    /\ tasks[t].pc = "unlock"
    /\ resultLock' = 0
    /\ tasks' = [tasks EXCEPT ![t].pc = "deferred"]
    /\ UNCHANGED <<html, this, req, pc, par, fetched, zipFiles, idx, opened, policy, loc,
                   uploadCounter, uploadWg, unzipResult, result, err>>

DoneOnlyOnSuccess(t) ==
    /\ tasks[t].pc = "deferred"
    /\ tasks[t].ans = "ok"
    /\ uploadWg' = uploadWg - 1
    /\ tasks' = [tasks EXCEPT ![t].pc = "exit"]
    /\ UNCHANGED <<html, this, req, pc, par, fetched, zipFiles, idx, opened, policy, loc,
                   uploadCounter, resultLock, unzipResult, result, err>>

\* Line 277: the deferred uploadWg.Done()
Done(t) ==
    /\ tasks[t].pc = "deferred"
    /\ uploadWg' = uploadWg - 1
    /\ tasks' = [tasks EXCEPT ![t].pc = "exit"]
    /\ UNCHANGED <<html, this, req, pc, par, fetched, zipFiles, idx, opened, policy, loc,
                   uploadCounter, resultLock, unzipResult, result, err>>

-----------------------------------------------------------------------------

Next ==
    \/ Parse
    \/ CheckSource
    \/ Fetch
    \/ ReadZip
    \/ CheckFileCount
    \/ CheckFileSize
    \/ Setup
    \/ NextEntry
    \/ DirCheck
    \/ Extract
    \/ Prepare
    \/ Barrier
    \/ Launch
    \/ Join
    \/ \E t \in 1..Len(tasks) : Put(t)
    \/ \E t \in 1..Len(tasks) : Lock(t)
    \/ \E t \in 1..Len(tasks) : AppendResult(t)
    \/ \E t \in 1..Len(tasks) : Unlock(t)
    \/ \E t \in 1..Len(tasks) : Done(t)

Spec == Init /\ [][Next]_vars

\* The steps of the goroutine that runs Do.
Dispatcher ==
    \/ Parse
    \/ CheckSource
    \/ Fetch
    \/ ReadZip
    \/ CheckFileCount
    \/ CheckFileSize
    \/ Setup
    \/ NextEntry
    \/ DirCheck
    \/ Extract
    \/ Prepare
    \/ Barrier
    \/ Launch
    \/ Join

\* The steps of the t-th upload goroutine.
Uploader(t) ==
    /\ t \in 1..Len(tasks)
    /\ (Put(t) \/ Lock(t) \/ AppendResult(t) \/ Unlock(t) \/ Done(t))

\* The Go scheduler runs every goroutine that can take a step, and every put
\* that is called returns: the dispatcher and each upload goroutine are
\* weakly fair.
FairSpec ==
    /\ Spec
    /\ WF_vars(Dispatcher)
    /\ \A t \in 1..MaxEntries : WF_vars(Uploader(t))

-----------------------------------------------------------------------------
(* The html2pdf and html2image plugins: one call of Html2Pdfer.Do or of    *)
(* Html2Imager.Do, and the wkhtmltopdf / wkhtmltoimage process it starts.  *)
(* The call is sequential; the renderer is the only other process.         *)

HTML2PDF_MAX_PAGE_SIZE == 10 * 1024 * 1024
HTML2PDF_MAX_COPIES == 10
HTML2IMAGE_MAX_PAGE_SIZE == 10 * 1024 * 1024

RESULT_TYPE_OCTECT_FILE == "octet-file"

\* The variables of the unzip call, which a call of an HTML plugin leaves alone.
unzipVars == <<this, req, pc, par, fetched, zipFiles, idx, opened, policy, loc,
               uploadCounter, uploadWg, resultLock, unzipResult, tasks, result, err>>

\* strconv.Atoi on a string of decimal digits (a sequence of digits 0..9).
RECURSIVE Atoi(_)
Atoi(s) ==
    IF s = <<>> THEN 0
    ELSE 10 * Atoi(SubSeq(s, 1, Len(s) - 1)) + s[Len(s)]

\* fmt.Sprintf("%d", n) for n >= 0: the decimal digits of n.
RECURSIVE Sprintf_d(_)
Sprintf_d(n) ==
    IF n < 10 THEN <<n>> ELSE Sprintf_d(n \div 10) \o <<n % 10>>

\* strings.HasPrefix on strings held as sequences of characters.
HasPrefix(s, prefix) ==
    Len(s) >= Len(prefix) /\ SubSeq(s, 1, Len(prefix)) = prefix

TextSlash == <<"t", "e", "x", "t", "/">>
MimeTextHtml == TextSlash \o <<"h", "t", "m", "l">>
MimeText == <<"t", "e", "x", "t">>
MimeImagePng == <<"i", "m", "a", "g", "e", "/", "p", "n", "g">>
MimeTypes == {MimeTextHtml, MimeText, MimeImagePng}

\* Html2PdferConfig and Html2ImagerConfig as decoded (0: option absent).
Html2PdferConfigs ==
    { [Html2PdfMaxPageSize |-> 0, Html2PdfMaxCopies |-> c] : c \in {0, 2} }
Html2ImagerConfigs ==
    { [Html2ImageMaxPageSize |-> s] : s \in {0, 1 * MiB} }

\* Html2Pdfer.InitConfig
Html2PdferInitConfig(config) ==
    [maxPageSize |-> IF config.Html2PdfMaxPageSize <= 0
                     THEN HTML2PDF_MAX_PAGE_SIZE ELSE config.Html2PdfMaxPageSize,
     maxCopies |-> IF config.Html2PdfMaxCopies <= 0
                   THEN HTML2PDF_MAX_COPIES ELSE config.Html2PdfMaxCopies]

\* Html2Imager.InitConfig
Html2ImagerInitConfig(config) ==
    [maxPageSize |-> IF config.Html2ImageMaxPageSize <= 0
                     THEN HTML2IMAGE_MAX_PAGE_SIZE
                     ELSE config.Html2ImageMaxPageSize]

\* html2pdf descriptors, by what parse reads of them: whether the pattern
\* matches, whether the url and title tokens decode and to what, and the text
\* of each optional segment (numbers as digit strings, <<>> or "" when absent).
Html2PdfCmds ==
    { [matched |-> TRUE, urlOk |-> TRUE, url |-> "page",
       grayStr |-> g, lowStr |-> <<>>, orient |-> o, size |-> "",
       titleOk |-> TRUE, title |-> "", collateStr |-> c, copiesStr |-> n] :
       g \in {<<>>, <<1>>}, o \in {"", "Landscape"}, c \in {<<>>, <<0>>},
       n \in {<<>>, <<0>>, <<3>>, <<1, 1>>} }
    \cup { [matched |-> m, urlOk |-> u, url |-> "page",
            grayStr |-> <<>>, lowStr |-> <<1>>, orient |-> "", size |-> "A4",
            titleOk |-> t, title |-> "T", collateStr |-> <<1>>, copiesStr |-> <<2>>] :
            m, u, t \in BOOLEAN }

\* html2image descriptors, in the same way.
Html2ImageCmds ==
    { [matched |-> TRUE, urlOk |-> TRUE, url |-> "page",
       cropHStr |-> h, cropWStr |-> <<>>, cropXStr |-> <<>>, cropYStr |-> <<>>,
       formatStr |-> f, heightStr |-> <<>>, widthStr |-> <<>>,
       qualityStr |-> q, forceStr |-> <<>>] :
       h \in {<<>>, <<0>>, <<1, 0>>}, f \in {"", "png", "jpeg"},
       q \in {<<>>, <<0>>, <<1, 0, 0>>, <<1, 0, 1>>} }
    \cup { [matched |-> m, urlOk |-> u, url |-> "page",
            cropHStr |-> <<>>, cropWStr |-> w, cropXStr |-> w, cropYStr |-> <<5>>,
            formatStr |-> "jpg", heightStr |-> <<6>>, widthStr |-> <<7>>,
            qualityStr |-> <<>>, forceStr |-> <<1>>] :
            m, u \in BOOLEAN, w \in {<<0>>, <<4>>} }

NoPdfOptions ==
    [Gray |-> FALSE, LowQuality |-> FALSE, Orientation |-> "", Size |-> "",
     Title |-> "", Collate |-> FALSE, Copies |-> 0]

\* Html2Pdfer.parse (options are read by Do only when err is empty)
Html2PdfParse(cmd) ==
    IF ~cmd.matched
    THEN [err |-> "invalid html2pdf command format", url |-> "",
          options |-> NoPdfOptions]
    ELSE IF ~cmd.urlOk
    THEN [err |-> "invalid html2pdf parameter 'url'", url |-> "",
          options |-> NoPdfOptions]
    ELSE IF ~cmd.titleOk
    THEN [err |-> "invalid html2pdf parameter 'title'", url |-> cmd.url,
          options |-> NoPdfOptions]
    ELSE IF cmd.copiesStr # <<>> /\ Atoi(cmd.copiesStr) <= 0
    THEN [err |-> "invalid html2pdf parameter 'copies'", url |-> cmd.url,
          options |-> NoPdfOptions]
    ELSE [err |-> "", url |-> cmd.url,
          options |->
            [Gray |-> cmd.grayStr # <<>> /\ Atoi(cmd.grayStr) = 1,
             LowQuality |-> cmd.lowStr # <<>> /\ Atoi(cmd.lowStr) = 1,
             Orientation |-> cmd.orient,
             Size |-> cmd.size,
             Title |-> cmd.title,
             Collate |-> ~(cmd.collateStr # <<>> /\ Atoi(cmd.collateStr) = 0),
             Copies |-> IF cmd.copiesStr # <<>> THEN Atoi(cmd.copiesStr) ELSE 1]]

NoImageOptions ==
    [CropH |-> 0, CropW |-> 0, CropX |-> 0, CropY |-> 0, Format |-> "jpg",
     Height |-> 0, Width |-> 0, Quality |-> 0, Force |-> FALSE]

\* The test parse makes of a numeric segment that is present.
NotPositive(str) == str # <<>> /\ Atoi(str) <= 0

\* Html2Imager.parse (options are read by Do only when err is empty)
Html2ImageParse(cmd) ==
    LET Fail(e) == [err |-> e, url |-> IF cmd.matched /\ cmd.urlOk THEN cmd.url ELSE "",
                    options |-> NoImageOptions]
    IN  IF ~cmd.matched THEN Fail("invalid html2image command format")
        ELSE IF ~cmd.urlOk THEN Fail("invalid html2image parameter 'url'")
        ELSE IF NotPositive(cmd.cropHStr) THEN Fail("invalid html2image parameter 'croph'")
        ELSE IF NotPositive(cmd.cropWStr) THEN Fail("invalid html2image parameter 'cropw'")
        ELSE IF NotPositive(cmd.cropXStr) THEN Fail("invalid html2image parameter 'cropx'")
        ELSE IF NotPositive(cmd.cropYStr) THEN Fail("invalid html2image parameter 'cropy'")
        ELSE IF NotPositive(cmd.heightStr) THEN Fail("invalid html2image parameter 'height'")
        ELSE IF NotPositive(cmd.widthStr) THEN Fail("invalid html2image parameter 'width'")
        ELSE IF cmd.qualityStr # <<>>
                /\ (Atoi(cmd.qualityStr) > 100 \/ Atoi(cmd.qualityStr) <= 0)
        THEN Fail("invalid html2image parameter 'quality'")
        ELSE [err |-> "", url |-> cmd.url,
              options |->
                [CropH |-> Atoi(cmd.cropHStr), CropW |-> Atoi(cmd.cropWStr),
                 CropX |-> Atoi(cmd.cropXStr), CropY |-> Atoi(cmd.cropYStr),
                 Format |-> IF cmd.formatStr # "" THEN cmd.formatStr ELSE "jpg",
                 Height |-> Atoi(cmd.heightStr), Width |-> Atoi(cmd.widthStr),
                 Quality |-> Atoi(cmd.qualityStr),
                 Force |-> cmd.forceStr # <<>> /\ Atoi(cmd.forceStr) = 1]]

\* resultTmpFpath: a fresh file of the temporary directory, named after the
\* source and the plugin's extension (the time stamp in the name is left out).
ResultTmpFpath(ext) == [dir |-> "tmp", jobPrefix |-> "md5", ext |-> ext]

\* The arguments Html2Pdfer.Do hands to wkhtmltopdf.
Html2PdfCmdParams(url, options, resultTmpFpath) ==
    <<"-q">>
    \o (IF options.Gray THEN <<"--grayscale">> ELSE <<>>)
    \o (IF options.LowQuality THEN <<"--lowquality">> ELSE <<>>)
    \o (IF options.Orientation # "" THEN <<"--orientation", options.Orientation>> ELSE <<>>)
    \o (IF options.Size # "" THEN <<"--page-size", options.Size>> ELSE <<>>)
    \o (IF options.Title # "" THEN <<"--title", options.Title>> ELSE <<>>)
    \o (IF options.Collate THEN <<"--collate">> ELSE <<"--no-collate">>)
    \o <<"--copies", Sprintf_d(options.Copies)>>
    \o <<url, resultTmpFpath>>

\* The arguments Html2Imager.Do hands to wkhtmltoimage.
Html2ImageCmdParams(url, options, resultTmpFpath) ==
    (IF options.CropH > 0 THEN <<"--crop-h", Sprintf_d(options.CropH)>> ELSE <<>>)
    \o (IF options.CropW > 0 THEN <<"--crop-w", Sprintf_d(options.CropW)>> ELSE <<>>)
    \o (IF options.CropX > 0 THEN <<"--crop-x", Sprintf_d(options.CropX)>> ELSE <<>>)
    \o (IF options.CropY > 0 THEN <<"--crop-y", Sprintf_d(options.CropY)>> ELSE <<>>)
    \o (IF options.Format # "" THEN <<"--format", options.Format>> ELSE <<>>)
    \o (IF options.Quality > 0 THEN <<"--quality", Sprintf_d(options.Quality)>> ELSE <<>>)
    \o (IF options.Height > 0 THEN <<"--height", Sprintf_d(options.Height)>> ELSE <<>>)
    \o (IF options.Width > 0 THEN <<"--width", Sprintf_d(options.Width)>> ELSE <<>>)
    \o (IF options.Force THEN <<"--disable-smart-width">> ELSE <<>>)
    \o <<url, resultTmpFpath>>

\* The zero value of Do's result: no path.
NoPath == [dir |-> "", jobPrefix |-> "", ext |-> ""]

\* The output file of the renderer as os.Stat sees it.
NoFile == [exists |-> FALSE, size |-> 0]
OutFiles == {NoFile, [exists |-> TRUE, size |-> 0], [exists |-> TRUE, size |-> 1]}

\* A call that has just been made: nothing parsed, no process, no output file.
HtmlCall(plugin, conf, cmd, mime, fsize) ==
    [plugin |-> plugin, this |-> conf,
     req |-> [Cmd |-> cmd, MimeType |-> mime, Fsize |-> fsize],
     pc |-> "check", url |-> "", options |-> <<>>, cmdParams |-> <<>>,
     resultTmpFpath |-> NoPath, started |-> 0, renderer |-> "none",
     outFile |-> NoFile,
     result |-> NoPath, resultType |-> "", contentType |-> "", err |-> ""]

HtmlCalls ==
    { HtmlCall("html2pdf", Html2PdferInitConfig(c), cmd, m, f) :
        c \in Html2PdferConfigs, cmd \in Html2PdfCmds, m \in MimeTypes,
        f \in {HTML2PDF_MAX_PAGE_SIZE, HTML2PDF_MAX_PAGE_SIZE + 1} }
    \cup
    { HtmlCall("html2image", Html2ImagerInitConfig(c), cmd, m, f) :
        c \in Html2ImagerConfigs, cmd \in Html2ImageCmds, m \in MimeTypes,
        f \in {1 * MiB, HTML2IMAGE_MAX_PAGE_SIZE, HTML2IMAGE_MAX_PAGE_SIZE + 1} }

\* State after construction: a configured plugin and a request; no unzip call.
InitHtml ==
    /\ html \in HtmlCalls
    /\ this = InitConfig([UnzipMaxFileCount |-> 0, UnzipMaxFileLength |-> 0,
                          UnzipMaxZipFileLength |-> 0])
    /\ req = [Cmd |-> CmdNoMatch, MimeType |-> "", Fsize |-> 0]
    /\ pc = "idle"
    /\ par = [bucket |-> <<>>, prefix |-> <<>>, overwrite |-> FALSE]
    /\ fetched = 0
    /\ zipFiles = <<>>
    /\ idx = 0
    /\ opened = 0
    /\ policy = [Scope |-> <<>>]
    /\ loc = NoLoc
    /\ uploadCounter = 0
    /\ uploadWg = 0
    /\ resultLock = 0
    /\ unzipResult = <<>>
    /\ tasks = <<>>
    /\ result = NoResult
    /\ err = NoErr

\* A return statement of an HTML Do that leaves err set.
HtmlReturn(e) == html' = [html EXCEPT !.pc = "done", !.err = e]

\* The same after the renderer was started: the deferred os.Remove runs.
HtmlReturnRemove(e) ==
    html' = [html EXCEPT !.pc = "done", !.err = e, !.outFile = NoFile]

\* Html2Pdfer.Do, lines 160-181: parse and the pre-checks.
Html2PdfCheck ==
    /\ html.pc = "check"
    /\ html.plugin = "html2pdf"
    /\ LET p == Html2PdfParse(html.req.Cmd)
       IN  IF p.err # ""
           THEN HtmlReturn(p.err)
           ELSE IF ~HasPrefix(html.req.MimeType, TextSlash)
           THEN HtmlReturn("unsupported file mime type, only text/* allowed")
           ELSE IF html.req.Fsize > html.this.maxPageSize
           THEN HtmlReturn("page file length exceeds the limit")
           ELSE IF p.options.Copies > html.this.maxCopies
           THEN HtmlReturn("pdf copies exceeds the limit")
           ELSE html' = [html EXCEPT !.pc = "start", !.url = p.url,
                                     !.options = p.options]
    /\ UNCHANGED unzipVars

\* Html2Imager.Do, lines 198-214: parse and the pre-checks.
Html2ImageCheck ==
    /\ html.pc = "check"
    /\ html.plugin = "html2image"
    /\ LET p == Html2ImageParse(html.req.Cmd)
       IN  IF p.err # ""
           THEN HtmlReturn(p.err)
           ELSE IF ~HasPrefix(html.req.MimeType, TextSlash)
           THEN HtmlReturn("unsupported file mime type, only text/* allowed")
           ELSE IF html.req.Fsize > html.this.maxPageSize
           THEN HtmlReturn("page file length exceeds the limit")
           ELSE html' = [html EXCEPT !.pc = "start", !.url = p.url,
                                     !.options = p.options]
    /\ UNCHANGED unzipVars

\* Lines 183-236 (html2pdf) and 216-277 (html2image): build the command line,
\* open the stderr pipe and start the renderer. Either of the two system calls
\* may fail.
Html2PdfStart ==
    /\ html.pc = "start"
    /\ html.plugin = "html2pdf"
    /\ LET path == ResultTmpFpath("pdf")
           params == Html2PdfCmdParams(html.url, html.options, path)
           h == [html EXCEPT !.cmdParams = params, !.resultTmpFpath = path]
       IN  \E pipeOk, startOk \in BOOLEAN :
             IF ~pipeOk
             THEN html' = [h EXCEPT !.pc = "done",
                                    !.err = "open exec stderr pipe error"]
             ELSE IF ~startOk
             THEN html' = [h EXCEPT !.pc = "done", !.started = h.started + 1,
                                    !.renderer = "startFailed",
                                    !.err = "start html2pdf command error"]
             ELSE html' = [h EXCEPT !.pc = "wait", !.started = h.started + 1,
                                    !.renderer = "running"]
    /\ UNCHANGED unzipVars

Html2ImageStart ==
    /\ html.pc = "start"
    /\ html.plugin = "html2image"
    /\ LET path == ResultTmpFpath(html.options.Format)
           params == Html2ImageCmdParams(html.url, html.options, path)
           h == [html EXCEPT !.cmdParams = params, !.resultTmpFpath = path]
       IN  \E pipeOk, startOk \in BOOLEAN :
             IF ~pipeOk
             THEN html' = [h EXCEPT !.pc = "done",
                                    !.err = "open exec stderr pipe error"]
             ELSE IF ~startOk
             THEN html' = [h EXCEPT !.pc = "done", !.started = h.started + 1,
                                    !.renderer = "startFailed",
                                    !.err = "start html2image command error"]
             ELSE html' = [h EXCEPT !.pc = "wait", !.started = h.started + 1,
                                    !.renderer = "running"]
    /\ UNCHANGED unzipVars

\* The renderer process: it exits with or without an error, having left no
\* output file, an empty one or one with data.
RendererExit ==
    /\ html.pc # "idle"
    /\ html.renderer = "running"
    /\ \E status \in {"exitOk", "exitErr"}, f \in OutFiles :
         html' = [html EXCEPT !.renderer = status, !.outFile = f]
    /\ UNCHANGED unzipVars

\* Lines 238-254 (html2pdf) and 279-295 (html2image): read the renderer's
\* stderr to its end, then wait for its exit. The read may fail at any time;
\* otherwise both calls return once the renderer has exited.
Html2PdfWait ==
    /\ html.pc = "wait"
    /\ html.plugin = "html2pdf"
    /\ \/ HtmlReturnRemove("read html2pdf command stderr error")
       \/ /\ html.renderer # "running"
          /\ IF html.renderer = "exitErr"
             THEN HtmlReturnRemove("wait html2pdf to exit error")
             ELSE html' = [html EXCEPT !.pc = "result"]
    /\ UNCHANGED unzipVars

Html2ImageWait ==
    /\ html.pc = "wait"
    /\ html.plugin = "html2image"
    /\ \/ HtmlReturnRemove("read html2image command stderr error")
       \/ /\ html.renderer # "running"
          /\ IF html.renderer = "exitErr"
             THEN HtmlReturnRemove("wait html2image to exit error")
             ELSE html' = [html EXCEPT !.pc = "result"]
    /\ UNCHANGED unzipVars

NoValidOutputStatOnly(oFile) == ~oFile.exists

\* statErr != nil || oFileInfo.Size() == 0
NoValidOutput(oFile) == ~oFile.exists \/ oFile.size = 0

\* Lines 256-266 of html2pdf: check the output file and return it.
Html2PdfResult ==
    /\ html.pc = "result"
    /\ html.plugin = "html2pdf"
    /\ IF NoValidOutput(html.outFile)
       THEN HtmlReturnRemove("html2pdf with no valid output result")
       ELSE html' = [html EXCEPT !.pc = "done",
                                 !.result = html.resultTmpFpath,
                                 !.resultType = RESULT_TYPE_OCTECT_FILE,
                                 !.contentType = "application/pdf"]
    /\ UNCHANGED unzipVars

\* Lines 297-312 of html2image: check the output file and return it.
Html2ImageResult ==
    /\ html.pc = "result"
    /\ html.plugin = "html2image"
    /\ IF NoValidOutput(html.outFile)
       THEN HtmlReturnRemove("html2image with no valid output result")
       ELSE html' = [html EXCEPT !.pc = "done",
                                 !.result = html.resultTmpFpath,
                                 !.resultType = RESULT_TYPE_OCTECT_FILE,
                                 !.contentType = IF html.options.Format = "png"
                                                 THEN "image/png"
                                                 ELSE "image/jpeg"]
    /\ UNCHANGED unzipVars

NextHtml ==
    \/ Html2PdfCheck
    \/ Html2ImageCheck
    \/ Html2PdfStart
    \/ Html2ImageStart
    \/ RendererExit
    \/ Html2PdfWait
    \/ Html2ImageWait
    \/ Html2PdfResult
    \/ Html2ImageResult

SpecHtml == InitHtml /\ [][NextHtml]_vars

-----------------------------------------------------------------------------
(* Vocabulary of the properties. *)

Returned == pc = "done"
ReturnedReport == pc = "done" /\ err = NoErr
ReturnedError == pc = "done" /\ err # NoErr

\* The errors of the pre-checks on the parsed archive, and those met while
\* iterating its entries.
CountError == "zip files count exceeds the limit"
SizeError == "zip file length exceeds the limit"
IterationErrors ==
    {"unsupported file name encoding", "open zip file content failed",
     "unzip the file content failed"}

\* The bag of the elements of a sequence.
BagOfSeq(seq) ==
    LET range == { seq[i] : i \in 1..Len(seq) }
    IN  [x \in range |-> Cardinality({ i \in 1..Len(seq) : seq[i] = x })]

\* The positions of the non-directory entries among the first n.
FilesBefore(n) == { i \in 1..Len(zipFiles) : i <= n /\ ~zipFiles[i].IsDir }

\* prefix + decodedName of the entry at position i.
KeyOfEntry(i) == par.prefix \o DecodeName(zipFiles[i].Name).val

\* The keys a full report of the archive holds, one per non-directory entry.
ExpectedKeys ==
    LET files == SelectSeq(zipFiles, LAMBDA e : ~e.IsDir)
    IN  [i \in 1..Len(files) |-> par.prefix \o DecodeName(files[i].Name).val]

KeysOf(files) == [i \in 1..Len(files) |-> files[i].Key]

\* The tasks launched and not finished: their deferred Done has not run.
Running == { t \in 1..Len(tasks) : tasks[t].pc # "exit" }

-----------------------------------------------------------------------------
(* C1: when Do returns a report, the multiset of its outcome keys is the   *)
(* multiset of prefix + decodedName over the non-directory entries of the  *)
(* archive, duplicates kept: no outcome is lost and none is duplicated,    *)
(* whatever the interleaving of the tasks and whichever uploads fail.      *)
C1_OneOutcomePerEntry ==
    ReturnedReport =>
        /\ Len(result.Files) = Cardinality(FilesBefore(Len(zipFiles)))
        /\ BagOfSeq(KeysOf(result.Files)) = BagOfSeq(ExpectedKeys)

\* A report with two outcomes of the same key, of which one failed and one did
\* not, and a third outcome.
C1_Witness ==
    /\ ReturnedReport
    /\ Len(result.Files) = 3
    /\ \E i, j \in 1..3 :
         /\ i # j
         /\ result.Files[i].Key = result.Files[j].Key
         /\ result.Files[i].Error # ""
         /\ result.Files[j].Hash # ""

(* C2, as stated: a run returns an error with no upload task ever launched, *)
(* or a report with one outcome per non-directory entry.                    *)
C2_AllOrNothing ==
    Returned =>
        \/ err # NoErr /\ tasks = <<>>
        \/ err = NoErr /\ Len(result.Files) = Cardinality(FilesBefore(Len(zipFiles)))

(* C2, amended: a run returns a report with one outcome per non-directory   *)
(* entry, or an error. An error of a check that precedes the iteration      *)
(* (descriptor, source, fetch, archive, entry count, entry sizes) is        *)
(* returned with no upload task launched; an error met while iterating      *)
(* (name decoding, open, read) at entry k is returned with a task launched  *)
(* for each non-directory entry before k and for no other.                  *)
C2_ErrorOrFullReport ==
    Returned =>
        \/ /\ err = NoErr
           /\ Len(result.Files) = Cardinality(FilesBefore(Len(zipFiles)))
        \/ /\ err # NoErr
           /\ err \notin IterationErrors
           /\ tasks = <<>>
        \/ /\ err \in IterationErrors
           /\ idx \in 1..Len(zipFiles)
           /\ { tasks[t].entry : t \in 1..Len(tasks) } = FilesBefore(idx - 1)
           /\ Len(tasks) = Cardinality(FilesBefore(idx - 1))

\* An error returned at the third entry after two tasks were launched.
C2_Witness ==
    /\ ReturnedError
    /\ err \in IterationErrors
    /\ idx = 3
    /\ Len(tasks) = 2

(* C3: when Do returns because of a failure met while iterating the entries *)
(* (name decoding, open, read), every task launched earlier has finished.   *)
C3_FatalReturnAwaitsTasks ==
    (Returned /\ err \in IterationErrors) => Running = {}

(* C4: the number of tasks launched and not yet finished never exceeds the  *)
(* batch size MAX_UPLOAD_WORKERS.                                           *)
C4_BoundedConcurrency ==
    Cardinality(Running) <= MAX_UPLOAD_WORKERS

\* As many tasks as the batch size, none of which has called its put yet.
C4_Witness ==
    /\ Cardinality(Running) = MAX_UPLOAD_WORKERS
    /\ \A t \in Running : tasks[t].pc = "put"
    /\ Len(tasks) > MAX_UPLOAD_WORKERS

\* Every error Do returns for a job-fatal failure.
JobFatalErrors ==
    {"invalid unzip command format", "invalid unzip parameter 'bucket'",
     "invalid unzip parameter 'prefix'", "unsupported mimetype to unzip",
     "src zip file length exceeds the limit", "retrieve resource data failed",
     "read resource data failed", "invalid zip file", CountError, SizeError}
    \cup IterationErrors

\* A sequence of outcomes, and the tasks, by key and by whether the put failed.
ShapesOf(files) == [i \in 1..Len(files) |-> <<files[i].Key, files[i].Error # "">>]
TaskShapes == [t \in 1..Len(tasks) |-> <<KeyOfEntry(tasks[t].entry), tasks[t].ans = "failed">>]

(* C5: a failed upload call never makes Do return an error. An error Do     *)
(* returns is one of the job-fatal ones; and when the iteration has gone    *)
(* through all entries, Do returns a report, in which every task has its    *)
(* outcome: its own key, with an error message exactly when its put failed. *)
C5_UploadFailureIsolated ==
    /\ ReturnedError => err \in JobFatalErrors
    /\ (Returned /\ idx > Len(zipFiles)) =>
          /\ err = NoErr
          /\ ~result.isNil
          /\ BagOfSeq(ShapesOf(result.Files)) = BagOfSeq(TaskShapes)

\* A report of three outcomes: a failed direct put, a failed resumable put,
\* and an upload that succeeded.
C5_Witness ==
    /\ ReturnedReport
    /\ Len(result.Files) = 3
    /\ \E t1, t2, t3 \in 1..Len(tasks) :
         /\ tasks[t1].fio = 1 /\ tasks[t1].ans = "failed"
         /\ tasks[t2].rio = 1 /\ tasks[t2].ans = "failed"
         /\ tasks[t3].ans = "ok"

\* Some entry of the parsed archive declares a size above the per-entry limit.
Oversized ==
    \E i \in 1..Len(zipFiles) : zipFiles[i].UncompressedSize64 > this.maxFileLength

(* C6: if any entry declares a size above the per-entry limit, at whatever  *)
(* position, Do gets no further than the pre-checks: no entry is opened, no *)
(* task is launched, and what Do returns is an error and no result.         *)
C6_OversizedEntryAborts ==
    Oversized =>
        /\ pc \in {"checkCount", "checkSize", "done"}
        /\ opened = 0
        /\ tasks = <<>>
        /\ Returned => (err \in {CountError, SizeError} /\ result.isNil)

\* Three entries of which only the last is oversized, and the error returned.
C6_Witness ==
    /\ ReturnedError
    /\ err = SizeError
    /\ Len(zipFiles) = 3
    /\ \A i \in 1..2 : /\ ~zipFiles[i].IsDir
                       /\ zipFiles[i].UncompressedSize64 <= this.maxFileLength
    /\ zipFiles[3].UncompressedSize64 > this.maxFileLength

(* C7: an archive with more entries (directories included) than the         *)
(* configured maximum makes Do return the count error, with no task         *)
(* launched and no result; the count error is returned for no archive       *)
(* with at most the maximum number of entries (exactly the maximum passes). *)
C7_TooManyEntriesAborts ==
    /\ Len(zipFiles) > this.maxFileCount =>
          /\ pc \in {"checkCount", "done"}
          /\ opened = 0
          /\ tasks = <<>>
          /\ Returned => (err = CountError /\ result.isNil)
    /\ (Returned /\ err = CountError) => Len(zipFiles) > this.maxFileCount

\* One entry more than the maximum, one of them a directory, and the error.
C7_Witness ==
    /\ ReturnedError
    /\ err = CountError
    /\ Len(zipFiles) = this.maxFileCount + 1
    /\ \E i \in 1..Len(zipFiles) : zipFiles[i].IsDir

(* C8: every outcome has exactly one of hash and error set: the outcome of  *)
(* a put that succeeded has a hash and no error, that of a put that failed  *)
(* an error and no hash. This holds of every outcome appended and of every  *)
(* outcome of the report.                                                   *)
C8_HashXorError ==
    /\ \A t \in 1..Len(tasks) :
         /\ tasks[t].ans = "ok" =>
               tasks[t].unzipFile.Hash # "" /\ tasks[t].unzipFile.Error = ""
         /\ tasks[t].ans = "failed" =>
               tasks[t].unzipFile.Error # "" /\ tasks[t].unzipFile.Hash = ""
    /\ \A i \in 1..Len(unzipResult) :
         (unzipResult[i].Hash # "") # (unzipResult[i].Error # "")
    /\ \A i \in 1..Len(result.Files) :
         (result.Files[i].Hash # "") # (result.Files[i].Error # "")

\* A report that holds an outcome with a hash and an outcome with an error.
C8_Witness ==
    /\ ReturnedReport
    /\ \E i, j \in 1..Len(result.Files) :
         /\ result.Files[i].Hash # "" /\ result.Files[i].Error = ""
         /\ result.Files[j].Error # "" /\ result.Files[j].Hash = ""

(* C9: a directory entry is never opened, never gets a task and never       *)
(* advances the upload counter, and the report holds exactly the keys of    *)
(* the non-directory entries.                                               *)
C9_DirectoriesSkipped ==
    /\ \A t \in 1..Len(tasks) : ~zipFiles[tasks[t].entry].IsDir
    /\ pc \in {"extract", "prepare", "barrier", "launch"} => ~zipFiles[idx].IsDir
    /\ opened <= Cardinality(FilesBefore(idx))
    /\ uploadCounter <= Cardinality(FilesBefore(idx))
    /\ ReturnedReport =>
          /\ Len(result.Files) = Cardinality(FilesBefore(Len(zipFiles)))
          /\ { result.Files[i].Key : i \in 1..Len(result.Files) }
               = { KeyOfEntry(j) : j \in FilesBefore(Len(zipFiles)) }

\* The archive a, b/, b/c with prefix o/: the report holds o/a and o/b/c.
C9_Witness ==
    /\ ReturnedReport
    /\ [i \in 1..Len(zipFiles) |-> zipFiles[i].Name] = <<NameA, NameDir, NameBC>>
    /\ par.prefix = PrefixO
    /\ Len(result.Files) = 2
    /\ { result.Files[i].Key : i \in 1..2 } = { PrefixO \o NameA, PrefixO \o NameBC }

(* C10: a task calls exactly one put, once: the direct put when its entry's *)
(* declared size is at most 100 MiB (0 included), the resumable put when it *)
(* is above.                                                                *)
C10_StrategyBySize ==
    \A t \in 1..Len(tasks) :
        LET size == zipFiles[tasks[t].entry].UncompressedSize64
        IN  /\ tasks[t].fileSize = size
            /\ tasks[t].pc = "put" => tasks[t].fio = 0 /\ tasks[t].rio = 0
            /\ (tasks[t].pc # "put" /\ size <= 100 * 1024 * 1024) =>
                  tasks[t].fio = 1 /\ tasks[t].rio = 0
            /\ (tasks[t].pc # "put" /\ size > 100 * 1024 * 1024) =>
                  tasks[t].fio = 0 /\ tasks[t].rio = 1

\* Three tasks that have called their put: sizes 0, 100 MiB and 100 MiB + 1.
C10_Witness ==
    \E t1, t2, t3 \in 1..Len(tasks) :
        /\ tasks[t1].fileSize = 0 /\ tasks[t1].fio = 1
        /\ tasks[t2].fileSize = 100 * 1024 * 1024 /\ tasks[t2].fio = 1
        /\ tasks[t3].fileSize = 100 * 1024 * 1024 + 1 /\ tasks[t3].rio = 1

EncodingError == "unsupported file name encoding"

\* The name of the entry at position i is not UTF-8 and does not transcode.
BadName(i) == ~Utf8Valid(zipFiles[i].Name) /\ ~Gbk2Utf8(zipFiles[i].Name).ok

(* C11: names are decoded for every entry, directories included, before the *)
(* directory filter. The iteration never gets past an entry, file or        *)
(* directory, whose name is not UTF-8 and does not transcode: reaching it,  *)
(* Do returns the encoding error and no result, no task is launched for it  *)
(* or for a later entry, and the encoding error is returned for no other    *)
(* entry.                                                                   *)
C11_UndecodableNameAborts ==
    /\ \A k \in 1..Len(zipFiles) :
         BadName(k) =>
            /\ idx <= k
            /\ \A t \in 1..Len(tasks) : tasks[t].entry < k
            /\ idx = k => pc \in {"iter", "done"}
            /\ (Returned /\ idx = k) => (err = EncodingError /\ result.isNil)
            /\ Returned => err # NoErr
    /\ (Returned /\ err = EncodingError) => (idx \in 1..Len(zipFiles) /\ BadName(idx))

\* The encoding error returned at a directory that stands between two small,
\* well-named files.
C11_Witness ==
    /\ ReturnedError
    /\ err = EncodingError
    /\ Len(zipFiles) = 3
    /\ idx = 2
    /\ zipFiles[2].IsDir
    /\ zipFiles[1].Name = NameA
    /\ zipFiles[3].Name = NameA

(* C12: whenever Do returns an error, the result it returns is empty, also  *)
(* when tasks launched earlier have appended their outcomes.                *)
C12_NoPartialReport ==
    ReturnedError => result = NoResult

\* An error returned after an outcome was appended to the shared sequence.
C12_Witness ==
    /\ ReturnedError
    /\ Len(unzipResult) >= 1
    /\ result.isNil

\* What the pre-checks on the descriptor and the source reject.
RejectedRequest ==
    \/ parse(req.Cmd).err # NoErr
    \/ req.MimeType \notin {"application/zip", "application/x-zip-compressed"}
    \/ req.Fsize > this.maxZipFileLength

(* C13: with an invalid descriptor, a mime type that is not a ZIP type, or  *)
(* a reported size above the archive limit, Do returns an error before the  *)
(* content is fetched: no http.Get, no archive, no entry opened, no task.   *)
C13_RejectedBeforeFetch ==
    RejectedRequest =>
        /\ pc \in {"parse", "checkSrc", "done"}
        /\ fetched = 0
        /\ zipFiles = <<>>
        /\ opened = 0
        /\ tasks = <<>>
        /\ Returned => (err # NoErr /\ result.isNil)

\* A well-formed descriptor and a ZIP mime type, rejected for the size alone.
C13_Witness ==
    /\ ReturnedError
    /\ err = "src zip file length exceeds the limit"
    /\ req.MimeType = "application/x-zip-compressed"
    /\ req.Fsize = this.maxZipFileLength + 1
    /\ fetched = 0

(* C14: the token of every task is made from a policy scoped to             *)
(* bucket:targetKey of the task's own key when overwrite is set, and to the *)
(* bucket alone when it is not; never from the key of another entry.        *)
C14_TokenScopedToOwnKey ==
    \A t \in 1..Len(tasks) :
        /\ tasks[t].fileName = KeyOfEntry(tasks[t].entry)
        /\ tasks[t].uptoken.scope =
              IF par.overwrite
              THEN par.bucket \o <<58>> \o KeyOfEntry(tasks[t].entry)
              ELSE par.bucket

\* With overwrite set, two tasks of different keys, each with its own scope.
C14_Witness ==
    /\ par.overwrite
    /\ \E t1, t2 \in 1..Len(tasks) :
         /\ tasks[t1].fileName # tasks[t2].fileName
         /\ tasks[t1].uptoken.scope = BucketB \o <<58>> \o PrefixO \o NameA
         /\ tasks[t2].uptoken.scope = BucketB \o <<58>> \o PrefixO \o NameBC

\* The keys the tasks launched so far upload to, in launch order.
RequestedKeys == [t \in 1..Len(tasks) |-> tasks[t].fileName]

(* C15: the keys a run requests and reports are a function of the archive   *)
(* and the descriptor alone, so two runs on the same archive and descriptor *)
(* agree on them: the keys of the tasks launched are, in order, the first   *)
(* keys of prefix + decodedName over the non-directory entries, all of them *)
(* once the iteration is through; and a report holds this multiset of keys  *)
(* whatever the interleaving and the answers of the store (only the order   *)
(* of the outcomes and their hash or error vary).                           *)
C15_KeysDeterminedByArchive ==
    /\ Len(tasks) <= Len(ExpectedKeys)
    /\ RequestedKeys = SubSeq(ExpectedKeys, 1, Len(tasks))
    /\ (Returned /\ idx > Len(zipFiles)) => RequestedKeys = ExpectedKeys
    /\ ReturnedReport =>
          /\ BagOfSeq(KeysOf(result.Files)) = BagOfSeq(RequestedKeys)
          /\ BagOfSeq(RequestedKeys) = BagOfSeq(ExpectedKeys)

\* A report whose outcomes are not in enumeration order and of which one holds
\* an error: the keys are those of the archive all the same.
C15_Witness ==
    /\ ReturnedReport
    /\ Len(result.Files) = 3
    /\ KeysOf(result.Files) # ExpectedKeys
    /\ \E i \in 1..3 : result.Files[i].Error # ""

-----------------------------------------------------------------------------
(* The HTML plugins. *)

HtmlReturned == html.pc = "done"

\* The request fails one of the pre-checks of Do: the descriptor is invalid,
\* the mime type is not text/*, the page is over the size limit or, for
\* html2pdf, the copies are over the limit.
HtmlRejected ==
    LET p == IF html.plugin = "html2pdf" THEN Html2PdfParse(html.req.Cmd)
             ELSE Html2ImageParse(html.req.Cmd)
    IN  \/ p.err # ""
        \/ ~HasPrefix(html.req.MimeType, TextSlash)
        \/ html.req.Fsize > html.this.maxPageSize
        \/ (html.plugin = "html2pdf" /\ p.options.Copies > html.this.maxCopies)

\* The renderer could not be started, exited with an error, or exited leaving
\* no output file or an empty one.
RendererFailed ==
    \/ html.renderer \in {"startFailed", "exitErr"}
    \/ (html.renderer = "exitOk" /\ (~html.outFile.exists \/ html.outFile.size = 0))

HtmlContentType ==
    IF html.plugin = "html2pdf" THEN "application/pdf"
    ELSE IF html.options.Format = "png" THEN "image/png" ELSE "image/jpeg"

\* C16: a call of the html2pdf or html2image Do that returns after a renderer
\* failure (not started, exit with an error, no non-empty output file) returns
\* an error and no result path; a call that returns without error returns the
\* one output file path it handed to the renderer, which was started once,
\* exited without error and left data, and the plugin's content type; an error
\* never comes with a path; and a request that fails a pre-check never has the
\* renderer started and returns an error.
C16_RendererFailureIsFatal ==
    /\ (HtmlReturned /\ RendererFailed) =>
          (html.err # "" /\ html.result = NoPath /\ html.contentType = "")
    /\ (HtmlReturned /\ html.err = "") =>
          /\ html.result # NoPath
          /\ html.result = html.resultTmpFpath
          /\ html.cmdParams[Len(html.cmdParams)] = html.result
          /\ html.contentType = HtmlContentType
          /\ html.resultType = RESULT_TYPE_OCTECT_FILE
          /\ html.started = 1
          /\ html.renderer = "exitOk"
          /\ html.outFile.exists /\ html.outFile.size > 0
    /\ (HtmlReturned /\ html.err # "") =>
          (html.result = NoPath /\ html.contentType = "" /\ html.resultType = "")
    /\ HtmlRejected =>
          /\ html.started = 0
          /\ html.renderer = "none"
          /\ html.pc \in {"check", "done"}
          /\ HtmlReturned => html.err # ""

\* The renderer of an html2image call exited without error but left an empty
\* file, and the call has returned.
C16_Witness ==
    /\ HtmlReturned
    /\ html.plugin = "html2image"
    /\ html.renderer = "exitOk"
    /\ html.started = 1
    /\ html.err = "html2image with no valid output result"

-----------------------------------------------------------------------------
(* The batch barrier. *)

\* The dispatcher has counted a task whose number is a multiple of the batch
\* size and is past the wait of line 271, about to launch that task.
PastBarrier == pc = "launch" /\ AtBarrier(uploadCounter)

\* Every task launched so far has finished, its outcome appended.
AllSettled ==
    /\ Running = {}
    /\ uploadWg = 0
    /\ resultLock = 0
    /\ Len(unzipResult) = Len(tasks)

\* C17: whenever the count of tasks has reached a multiple of the batch size
\* and the dispatcher is past its wait, every task launched so far has
\* finished (outcome appended, none running); and the task with that number
\* is launched only in such a state.
C17_BatchBarrier ==
    /\ [](PastBarrier => AllSettled)
    /\ [][(Len(tasks') > Len(tasks) /\ AtBarrier(uploadCounter)) => AllSettled]_vars

\* The dispatcher has passed the barrier after an earlier task ran to its end.
C17_Witness ==
    /\ PastBarrier
    /\ uploadCounter = MAX_UPLOAD_WORKERS
    /\ Len(tasks) = MAX_UPLOAD_WORKERS - 1
    /\ Len(unzipResult) = MAX_UPLOAD_WORKERS - 1

-----------------------------------------------------------------------------
(* The lock of the outcome sequence. *)

\* The tasks between resultLock.Lock() and resultLock.Unlock().
InCritical == { t \in 1..Len(tasks) : tasks[t].pc \in {"append", "unlock"} }

\* The tasks that have made their append.
HaveAppended ==
    { t \in 1..Len(tasks) : tasks[t].pc \in {"unlock", "deferred", "exit"} }

\* C18: at most one upload task is inside the append critical section, and
\* it is the holder of the lock, which is free otherwise; the sequence holds
\* one outcome per task that is past its append, so that a holder has made no
\* append before its own and one when it unlocks; and every change of the
\* sequence is made by the holder of the lock and adds the holder's one
\* outcome at the end, leaving the outcomes already there as they were.
C18_AppendsMutuallyExclusive ==
    /\ [](/\ Cardinality(InCritical) <= 1
          /\ (resultLock = 0 <=> InCritical = {})
          /\ (resultLock # 0 => InCritical = {resultLock})
          /\ Len(unzipResult) = Cardinality(HaveAppended))
    /\ [][unzipResult' # unzipResult =>
            /\ resultLock # 0
            /\ resultLock' = resultLock
            /\ tasks[resultLock].pc = "append"
            /\ tasks'[resultLock].pc = "unlock"
            /\ Len(unzipResult') = Len(unzipResult) + 1
            /\ SubSeq(unzipResult', 1, Len(unzipResult)) = unzipResult
            /\ unzipResult'[Len(unzipResult')] = tasks[resultLock].unzipFile]_vars

\* A task holds the lock for its append while another waits for the lock and
\* the sequence already holds an outcome.
C18_Witness ==
    /\ unzipResult # <<>>
    /\ \E t, u \in 1..Len(tasks) :
         /\ tasks[t].pc = "append"
         /\ resultLock = t
         /\ tasks[u].pc = "lock"

-----------------------------------------------------------------------------
(* Failures during the iteration, and the order of the iteration. *)

\* The entries for which a task was launched, in the order of the launches.
LaunchedEntries == [t \in 1..Len(tasks) |-> tasks[t].entry]

\* C19: a failure of name decoding, open or read at entry k ends the call at
\* once with that one error and no result, every task launched being for an
\* entry before k; from then on no task is launched and the error stays; and
\* at any time the tasks launched are those of the non-directory entries
\* before the current one, launched in strictly increasing entry order, the
\* current entry moving one entry forward at a time.
C19_NothingLaunchedFromFailedEntry ==
    /\ [](err \in IterationErrors =>
            /\ pc = "done"
            /\ result = NoResult
            /\ idx \in 1..Len(zipFiles)
            /\ (err = EncodingError <=> BadName(idx))
            /\ \A t \in 1..Len(tasks) : tasks[t].entry < idx)
    /\ [](/\ \A t, u \in 1..Len(tasks) :
               t < u => LaunchedEntries[t] < LaunchedEntries[u]
          /\ { LaunchedEntries[t] : t \in 1..Len(tasks) } = FilesBefore(idx - 1))
    /\ [][/\ err \in IterationErrors =>
               (Len(tasks') = Len(tasks) /\ idx' = idx /\ err' = err /\ pc' = pc)
          /\ idx' # idx => idx' = idx + 1
          /\ Len(tasks') > Len(tasks) =>
               (Len(tasks') = Len(tasks) + 1 /\ tasks'[Len(tasks')].entry = idx)]_vars

\* The call has returned the error met at the second of three entries, after
\* the launch of the first entry's task; the third entry is a file.
C19_Witness ==
    /\ Returned
    /\ err \in IterationErrors
    /\ Len(zipFiles) = 3
    /\ idx = 2
    /\ LaunchedEntries = <<1>>
    /\ ~zipFiles[3].IsDir
    /\ ~BadName(3)

-----------------------------------------------------------------------------
(* Termination. *)

\* C20: under fair scheduling, with every put that is called returning, Do
\* returns, whatever the number of entries and of non-directory entries; and
\* a dispatcher that waits at the batch barrier goes on to launch the task.
C20_DoReturns ==
    /\ <>Returned
    /\ (pc = "barrier") ~> (pc = "launch")

\* Do has returned its report after one task more than a batch, having passed
\* the barrier and the final join.
C20_Witness ==
    /\ ReturnedReport
    /\ Len(tasks) = MAX_UPLOAD_WORKERS + 1
    /\ uploadCounter = MAX_UPLOAD_WORKERS + 1

-----------------------------------------------------------------------------
(* The order of the outcomes across barriers. *)

\* The outcomes of the first n tasks launched, in the order of the launches.
OutcomesOfFirst(n) == [u \in 1..n |-> tasks[u].unzipFile]

\* The numbers, among the tasks launched, that are multiples of the batch
\* size: the tasks launched right after a wait at the barrier.
AfterWait == { k \in 1..Len(tasks) : k % MAX_UPLOAD_WORKERS = 0 }

\* C21: the tasks are numbered by the counter in the order of their launch,
\* and for every task k launched right after a barrier wait, the sequence of
\* outcomes begins with the outcomes of the tasks numbered below k, in some
\* order: they stand before the outcome of task k and of every later task;
\* the report that Do returns is that sequence.
C21_OrderedAcrossBarriers ==
    /\ Len(tasks) \in {uploadCounter, uploadCounter - 1}
    /\ \A k \in AfterWait :
         /\ Len(unzipResult) >= k - 1
         /\ BagOfSeq(SubSeq(unzipResult, 1, k - 1)) = BagOfSeq(OutcomesOfFirst(k - 1))
         /\ \A u \in 1..(k - 1) : tasks[u].pc = "exit"
    /\ ReturnedReport => result.Files = unzipResult

\* Do has returned a report of three outcomes: that of the task launched
\* before the wait comes first, and the two tasks launched after the wait
\* finished in the reverse of their launch order.
C21_Witness ==
    /\ ReturnedReport
    /\ MAX_UPLOAD_WORKERS = 2
    /\ Len(tasks) = 3
    /\ tasks[2].unzipFile # tasks[3].unzipFile
    /\ result.Files = <<tasks[1].unzipFile, tasks[3].unzipFile, tasks[2].unzipFile>>

-----------------------------------------------------------------------------
(* The per-entry limit and the upload strategy. *)

\* The tasks that have called the resumable put, and the direct put.
CalledResumable == { t \in 1..Len(tasks) : tasks[t].rio > 0 }
CalledDirect == { t \in 1..Len(tasks) : tasks[t].fio > 0 }

\* C22: when the per-entry limit the Unzipper runs with is at most the
\* strategy threshold of 100 MiB, every entry a task is launched for is at
\* most that limit, no task ever calls the resumable put and every task that
\* has made its call made it to the direct put; so a call of the resumable
\* put is seen only with a limit configured above 100 MiB.
C22_DefaultLimitNeverResumable ==
    /\ this.maxFileLength <= 100 * 1024 * 1024 =>
          /\ CalledResumable = {}
          /\ \A t \in 1..Len(tasks) :
                /\ tasks[t].fileSize <= this.maxFileLength
                /\ tasks[t].pc # "put" => t \in CalledDirect
    /\ CalledResumable # {} => this.maxFileLength > 100 * 1024 * 1024

\* With the default limit, an entry of exactly 100 MiB has passed the size
\* pre-check and its task has called the direct put.
C22_Witness ==
    /\ this.maxFileLength = UNZIP_MAX_FILE_LENGTH
    /\ \E t \in 1..Len(tasks) :
         /\ tasks[t].fileSize = 100 * 1024 * 1024
         /\ tasks[t].fio = 1
         /\ tasks[t].rio = 0

\* With a limit configured above 100 MiB the resumable put is called.
C22_ResumableReached ==
    /\ this.maxFileLength > 100 * 1024 * 1024
    /\ CalledResumable # {}

=============================================================================
